---- MODULE Spec2Model ----
(***************************************************************************)
(* Model of gmail-automation.                                              *)
(*                                                                         *)
(* Spec, SpecConcurrent: the push-notification consumer,                   *)
(*   pubsub.new_message_callback on top of the history cursor store of     *)
(*   database.py, against a mail provider that records history entries and *)
(*   publishes one notification per entry on an at-least-once channel.     *)
(*   One action is one remote or database operation of the callback, so    *)
(*   that handlers of concurrently delivered notifications interleave at   *)
(*   the granularity the code gives them and a crash can fall between any  *)
(*   two operations.                                                       *)
(* SpecPipeline: the execution plan of handlers.messages.MessageHandler,   *)
(*   one action per builder method and per stage.                          *)
(***************************************************************************)
EXTENDS Integers, Sequences, FiniteSets, TLC

\* ------------------------------------------------------------------ bounds
MaxHistory == 2        \* history entries the provider records per mailbox
MaxDeliveries == 3     \* deliveries the channel makes, redeliveries included
NumHandlers == 2       \* callback executions that can be in flight
MaxBuilderCalls == 2   \* builder methods chained on one MessageHandler
MaxBatch == 2          \* messages in the batch handed to execute

\* --------------------------------------------------------------- constants
None == -1             \* get_last_history_id's "no record" result
DbUser == "me"         \* the user id new_message_callback passes to the store
Mailboxes == {"me"}    \* mailbox users the callback is bound to (userId)
Handlers == 1..NumHandlers
WatchHistoryId == 0    \* cursor stored by the watch set-up, before any entry

VARIABLES
    history,      \* provider: mailbox -> sequence of history entries
    published,    \* channel: set of notifications [userId, historyId]
    deliveries,   \* channel: number of deliveries so far
    acked,        \* channel: set of notifications acknowledged at least once
    cursors,      \* history collection: records in insertion (date) order
    pc,           \* handler -> position in new_message_callback
    msg,          \* handler -> notification being handled
    last,         \* handler -> last_history_id returned by the store
    res,          \* handler -> history_res["history"]
    acks,         \* handler -> message.ack() calls of this execution
    fetched,      \* handler -> message ids fetched by this execution
    histCalls,    \* handler -> get_history calls (start ids) of this execution
    pos,          \* handler -> items of res the for loop has gone through
    emitted       \* message id -> number of times fetched, over all executions

pubsubVars == <<history, published, deliveries, acked, cursors, pc, msg, last,
                res, acks, fetched, histCalls, pos, emitted>>

VARIABLES
    plan,         \* MessageHandler._execution_plan: sequence of stages
    phase,        \* "build", "run", "done" or "failed"
    ip,           \* execute: index of the stage that runs next
    batch,        \* the in-memory GmailMessage records handed to execute
    existing,     \* provider: the label ids that exist
    remoteLabels, \* provider: message id -> its label ids
    trashed,      \* provider: the message ids in the trash
    calls,        \* the remote calls issued so far, in order
    error,        \* the exception that left execute, "none" without one
    snaps         \* label sets, remote and in memory, after each refresh

pipelineVars == <<plan, phase, ip, batch, existing, remoteLabels, trashed,
                  calls, error, snaps>>

VARIABLES
    pages,        \* provider: the pages of message ids the query matches
    searcher,     \* the function that runs the paginated search
    req,          \* the list request to execute next, NoRequest after the last
    listCalls,    \* the list requests executed so far, in order
    raw_messages, \* the id records accumulated by the search loop
    built,        \* classify: its `messages` list, the records built so far
    handled,      \* the calls of the classifier's handler: their arguments
    cpc           \* "search", "handle", "done" or "failed"

classifyVars == <<pages, searcher, req, listCalls, raw_messages, built,
                  handled, cpc>>

VARIABLES
    registry,     \* classfier collection: rule -> its registration record
    now,          \* the clock pendulum.now() reads
    ri,           \* run_classfiers: index of the rule the loop is at
    spc,          \* "idle", "loop", "classify" or "raised"
    classified,   \* the classify calls made so far: rule, bound and time
    passes        \* scheduler passes started so far

schedulerVars == <<registry, now, ri, spc, classified, passes>>

VARIABLES
    files,        \* local directory: path -> content, Absent without a file
    blobs,        \* bucket: path -> content, Absent without a blob
    bucketExists, \* whether the bucket exists
    sinkError,    \* the exception of the last sink call, "none" without one
    writes        \* the writes made so far: sink, path, content before, data

sinkVars == <<files, blobs, bucketExists, sinkError, writes>>

VARIABLES
    localLabels,  \* labels collection: the names of its documents, in order
    gmailLabels,  \* provider: the names of the labels that exist
    gmailAtStart, \* the names that existed when setup_labels was called
    listedNames,  \* setup_labels: gmail_labels_names
    li,           \* setup_labels: index of the document the loop is at
    lpc,          \* "list", "loop", "relist", "returned" or "raised"
    creates,      \* the labels.create calls made so far, in order
    returned      \* the names of the dict setup_labels returns

labelsVars == <<localLabels, gmailLabels, gmailAtStart, listedNames, li, lpc,
                creates, returned>>

VARIABLES
    fields,       \* GmailQuery: its six fields, in the order of __init__
    query,        \* the string to_gmail_string returned
    qpc           \* "built" or "converted"

queryVars == <<fields, query, qpc>>

vars == <<pubsubVars, pipelineVars, classifyVars, schedulerVars, sinkVars,
          labelsVars, queryVars>>

\* What an action of one component leaves alone.
notPubsub ==
    <<pipelineVars, classifyVars, schedulerVars, sinkVars, labelsVars, queryVars>>
notPipeline ==
    <<pubsubVars, classifyVars, schedulerVars, sinkVars, labelsVars, queryVars>>
notClassify ==
    <<pubsubVars, pipelineVars, schedulerVars, sinkVars, labelsVars, queryVars>>
notScheduler ==
    <<pubsubVars, pipelineVars, classifyVars, sinkVars, labelsVars, queryVars>>
notSink ==
    <<pubsubVars, pipelineVars, classifyVars, schedulerVars, labelsVars, queryVars>>
notLabels ==
    <<pubsubVars, pipelineVars, classifyVars, schedulerVars, sinkVars, queryVars>>
notQuery ==
    <<pubsubVars, pipelineVars, classifyVars, schedulerVars, sinkVars, labelsVars>>

provider == <<history, published>>
locals == <<msg, last, res, acks, fetched, histCalls, pos>>

\* ------------------------------------------------------------ the provider
\* Message ids the provider assigns to the messages added by entry k.
FirstMsg(k) == 2 * k - 1
SecondMsg(k) == 2 * k
MessageIds == 0..(2 * MaxHistory)

\* A history entry as users.history.list returns it: "messagesAdded" is
\* absent (empty here) for entries of another type, "messages" lists every
\* message the entry changed.
\* Message 0 is in the mailbox since before the watch started.
LabelEntry(k) == [id |-> k, messagesAdded |-> <<>>, messages |-> <<0>>]
OneAddedEntry(k) == [id |-> k, messagesAdded |-> <<FirstMsg(k)>>,
                     messages |-> <<FirstMsg(k)>>]
TwoAddedEntry(k) == [id |-> k, messagesAdded |-> <<FirstMsg(k), SecondMsg(k)>>,
                     messages |-> <<FirstMsg(k), SecondMsg(k)>>]
EntriesAt(k) == {LabelEntry(k), OneAddedEntry(k), TwoAddedEntry(k)}

Notification(u, k) == [userId |-> u, historyId |-> k]
AllNotifications == {Notification(u, k) : u \in Mailboxes, k \in 1..MaxHistory}
NoMessage == Notification(DbUser, WatchHistoryId)

\* gmail.get_history: the entries of the mailbox after startHistoryId.
get_history(hist, userId, startHistoryId) ==
    LET After(e) == e.id > startHistoryId
    IN SelectSeq(hist[userId], After)

\* ------------------------------------------------- database.py, the store
CursorRecord(userId, history_id) == [historyId |-> history_id, userId |-> userId]

\* A store whose insert is lost: nothing is appended.
insert_last_history_id_Lost(coll, userId, history_id) == coll

insert_last_history_id(coll, userId, history_id) ==
    Append(coll, CursorRecord(userId, history_id))

\* A store that sorts by date ascending: the oldest record comes first.
get_last_history_id_Oldest(coll, userId) ==
    LET OfUser(r) == r.userId = userId
        mine == SelectSeq(coll, OfUser)
    IN IF mine = <<>> THEN None ELSE mine[1].historyId

get_last_history_id(coll, userId) ==
    LET OfUser(r) == r.userId = userId
        mine == SelectSeq(coll, OfUser)
    IN IF mine = <<>> THEN None ELSE mine[Len(mine)].historyId

\* ------------------------------------------------------------------- Init
\* No MessageHandler is in use.
PipelineUnused ==
    /\ plan = <<>>
    /\ phase = "unused"
    /\ ip = 0
    /\ batch = <<>>
    /\ existing = {}
    /\ remoteLabels = <<>>
    /\ trashed = {}
    /\ calls = <<>>
    /\ error = "none"
    /\ snaps = <<>>

\* The consumer before the first notification, the store empty or holding
\* the watch cursor.
InitConsumer(stores) ==
    /\ history = [u \in Mailboxes |-> <<>>]
    /\ published = {}
    /\ deliveries = 0
    /\ acked = {}
    /\ cursors \in stores
    /\ pc = [h \in Handlers |-> "idle"]
    /\ msg = [h \in Handlers |-> NoMessage]
    /\ last = [h \in Handlers |-> None]
    /\ res = [h \in Handlers |-> <<>>]
    /\ acks = [h \in Handlers |-> 0]
    /\ fetched = [h \in Handlers |-> <<>>]
    /\ histCalls = [h \in Handlers |-> <<>>]
    /\ pos = [h \in Handlers |-> 0]
    /\ emitted = [m \in MessageIds |-> 0]

\* No subscription is running.
ConsumerUnused == InitConsumer({<<>>})

\* No search or classification is running.
ClassifyUnused ==
    /\ pages = <<>>
    /\ searcher = "none"
    /\ req = 0
    /\ listCalls = <<>>
    /\ raw_messages = <<>>
    /\ built = <<>>
    /\ handled = <<>>
    /\ cpc = "unused"

\* No scheduler is running.
SchedulerUnused ==
    /\ registry = <<>>
    /\ now = 0
    /\ ri = 0
    /\ spc = "unused"
    /\ classified = <<>>
    /\ passes = 0

\* No attachment sink is in use.
SinkUnused ==
    /\ files = <<>>
    /\ blobs = <<>>
    /\ bucketExists = FALSE
    /\ sinkError = "none"
    /\ writes = <<>>

\* setup_labels is not running.
LabelsUnused ==
    /\ localLabels = <<>>
    /\ gmailLabels = {}
    /\ gmailAtStart = {}
    /\ listedNames = {}
    /\ li = 0
    /\ lpc = "unused"
    /\ creates = <<>>
    /\ returned = {}

\* No query is being built.
QueryUnused ==
    /\ fields = <<>>
    /\ query = <<>>
    /\ qpc = "unused"

Init ==
    /\ InitConsumer({<<>>, <<CursorRecord(DbUser, WatchHistoryId)>>})
    /\ PipelineUnused
    /\ ClassifyUnused
    /\ SchedulerUnused
    /\ SinkUnused
    /\ LabelsUnused
    /\ QueryUnused

\* The provider records a change of the mailbox as the next history entry
\* and publishes its notification.
ProviderChange(u) ==
    /\ Len(history[u]) < MaxHistory
    /\ \E e \in EntriesAt(Len(history[u]) + 1) :
          /\ history' = [history EXCEPT ![u] = Append(@, e)]
          /\ published' = published \cup {Notification(u, e.id)}
    /\ UNCHANGED notPubsub
    /\ UNCHANGED <<deliveries, acked, cursors, pc, locals, emitted>>

\* --------------------------------------------- pubsub.new_message_callback
\* The channel hands a published notification to a free callback execution.
\* At-least-once: a notification can be handed over again, acknowledged or
\* not, and in any order.
Deliver(h, n) ==
    /\ pc[h] = "idle"
    /\ n \in published
    /\ deliveries < MaxDeliveries
    /\ deliveries' = deliveries + 1
    /\ msg' = [msg EXCEPT ![h] = n]
    /\ pc' = [pc EXCEPT ![h] = "read"]
    /\ UNCHANGED notPubsub
    /\ UNCHANGED <<provider, acked, cursors, last, res, acks, fetched,
                   histCalls, pos, emitted>>

\* A subscriber that runs one callback at a time.
DeliverSerial(h, n) ==
    /\ \A g \in Handlers : pc[g] = "idle"
    /\ Deliver(h, n)

\* update_last_history_id, first half: get_last_history_id(coll, "me").
ReadCursor(h) ==
    /\ pc[h] = "read"
    /\ last' = [last EXCEPT ![h] = get_last_history_id(cursors, DbUser)]
    /\ pc' = [pc EXCEPT ![h] = "insert"]
    /\ UNCHANGED notPubsub
    /\ UNCHANGED <<provider, deliveries, acked, cursors, msg, res, acks,
                   fetched, histCalls, pos, emitted>>

\* update_last_history_id, second half: insert_last_history_id(coll, "me", H).
InsertCursor(h) ==
    /\ pc[h] = "insert"
    /\ cursors' = insert_last_history_id(cursors, DbUser, msg[h].historyId)
    /\ pc' = [pc EXCEPT ![h] = "guard"]
    /\ UNCHANGED notPubsub
    /\ UNCHANGED <<provider, deliveries, acked, locals, emitted>>

\* if last_history_id is None: raise Exception(...)
RaiseNoCursor(h) ==
    /\ pc[h] = "guard"
    /\ last[h] = None
    /\ pc' = [pc EXCEPT ![h] = "raised"]
    /\ UNCHANGED notPubsub
    /\ UNCHANGED <<provider, deliveries, acked, cursors, locals, emitted>>

\* The guard written with > : a repeat at the stored cursor is not caught.
IsDuplicate_Strict(lastId, historyId) == lastId > historyId

\* int(last_history_id) >= int(message_data['historyId'])
IsDuplicate(lastId, historyId) == lastId >= historyId

\* message.ack()
Ack(h) ==
    /\ acks' = [acks EXCEPT ![h] = @ + 1]
    /\ acked' = acked \cup {msg[h]}

\* the duplicate branch: message.ack(); return
AckDuplicate(h) ==
    /\ pc[h] = "guard"
    /\ last[h] # None
    /\ IsDuplicate(last[h], msg[h].historyId)
    /\ Ack(h)
    /\ pc' = [pc EXCEPT ![h] = "returned"]
    /\ UNCHANGED notPubsub
    /\ UNCHANGED <<provider, deliveries, cursors, msg, last, res, fetched,
                   histCalls, pos, emitted>>

\* history_res = gmail.get_history(gmail_service, userId, last_history_id)
\* An answer without entries has no "history" key and the for loop raises.
GetHistory(h) ==
    /\ pc[h] = "guard"
    /\ last[h] # None
    /\ ~IsDuplicate(last[h], msg[h].historyId)
    /\ histCalls' = [histCalls EXCEPT ![h] = Append(@, last[h])]
    /\ LET answer == get_history(history, msg[h].userId, last[h])
       IN /\ res' = [res EXCEPT ![h] = answer]
          /\ pc' = [pc EXCEPT ![h] = IF answer = <<>> THEN "raised" ELSE "scan"]
    /\ UNCHANGED notPubsub
    /\ UNCHANGED <<provider, deliveries, acked, cursors, msg, last, acks,
                   fetched, pos, emitted>>

\* The same call failing (transport or quota error): the exception leaves
\* the callback.
GetHistoryFails(h) ==
    /\ pc[h] = "guard"
    /\ last[h] # None
    /\ ~IsDuplicate(last[h], msg[h].historyId)
    /\ histCalls' = [histCalls EXCEPT ![h] = Append(@, last[h])]
    /\ pc' = [pc EXCEPT ![h] = "raised"]
    /\ UNCHANGED notPubsub
    /\ UNCHANGED <<provider, deliveries, acked, cursors, msg, last, res, acks,
                   fetched, pos, emitted>>

\* "messagesAdded" in history_item and history_item['id'] == historyId
Matches(item, historyId) == item.messagesAdded # <<>> /\ item.id = historyId

\* The position in items, after from, of the next item the loop fetches a
\* message for; 0 when the loop runs to its end without a fetch.
RECURSIVE NextMatch(_, _, _)
NextMatch(items, from, historyId) ==
    IF from >= Len(items) THEN 0
    ELSE IF Matches(items[from + 1], historyId) THEN from + 1
    ELSE NextMatch(items, from + 1, historyId)

\* message_id = history_item["messages"][0]["id"]
MessageIdOf(item) == item.messages[1]

\* gmail_service.users().messages().get(userId="me", id=message_id, ...)
FetchMessage(h) ==
    /\ pc[h] = "scan"
    /\ LET i == NextMatch(res[h], pos[h], msg[h].historyId)
       IN /\ i # 0
          /\ fetched' = [fetched EXCEPT ![h] = Append(@, MessageIdOf(res[h][i]))]
          /\ emitted' = [emitted EXCEPT ![MessageIdOf(res[h][i])] = @ + 1]
          /\ pos' = [pos EXCEPT ![h] = i]
    /\ UNCHANGED notPubsub
    /\ UNCHANGED <<provider, deliveries, acked, cursors, pc, msg, last, res,
                   acks, histCalls>>

\* The message fetch failing: the exception leaves the callback.
FetchFails(h) ==
    /\ pc[h] = "scan"
    /\ NextMatch(res[h], pos[h], msg[h].historyId) # 0
    /\ pc' = [pc EXCEPT ![h] = "raised"]
    /\ UNCHANGED notPubsub
    /\ UNCHANGED <<provider, deliveries, acked, cursors, locals, emitted>>

\* after the loop: message.ack()
AckProcessed(h) ==
    /\ pc[h] = "scan"
    /\ NextMatch(res[h], pos[h], msg[h].historyId) = 0
    /\ Ack(h)
    /\ pc' = [pc EXCEPT ![h] = "returned"]
    /\ UNCHANGED notPubsub
    /\ UNCHANGED <<provider, deliveries, cursors, msg, last, res, fetched,
                   histCalls, pos, emitted>>

\* The process dies between two operations of the callback; the store and
\* the channel keep what was written.
Crash(h) ==
    /\ pc[h] \in {"read", "insert", "guard", "scan"}
    /\ pc' = [pc EXCEPT ![h] = "crashed"]
    /\ UNCHANGED notPubsub
    /\ UNCHANGED <<provider, deliveries, acked, cursors, locals, emitted>>

\* The execution is over; its locals are gone.
Finish(h) ==
    /\ pc[h] \in {"returned", "raised", "crashed"}
    /\ pc' = [pc EXCEPT ![h] = "idle"]
    /\ msg' = [msg EXCEPT ![h] = NoMessage]
    /\ last' = [last EXCEPT ![h] = None]
    /\ res' = [res EXCEPT ![h] = <<>>]
    /\ acks' = [acks EXCEPT ![h] = 0]
    /\ fetched' = [fetched EXCEPT ![h] = <<>>]
    /\ histCalls' = [histCalls EXCEPT ![h] = <<>>]
    /\ pos' = [pos EXCEPT ![h] = 0]
    /\ UNCHANGED notPubsub
    /\ UNCHANGED <<provider, deliveries, acked, cursors, emitted>>

Step(h) ==
    \/ ReadCursor(h)
    \/ InsertCursor(h)
    \/ RaiseNoCursor(h)
    \/ AckDuplicate(h)
    \/ GetHistory(h)
    \/ GetHistoryFails(h)
    \/ FetchMessage(h)
    \/ FetchFails(h)
    \/ AckProcessed(h)
    \/ Crash(h)
    \/ Finish(h)

\* One notification is handled at a time.
Next ==
    \/ \E u \in Mailboxes : ProviderChange(u)
    \/ \E h \in Handlers, n \in AllNotifications : DeliverSerial(h, n)
    \/ \E h \in Handlers : Step(h)

Spec == Init /\ [][Next]_vars

\* The subscriber hands notifications to concurrent callback executions.
NextConcurrent ==
    \/ \E u \in Mailboxes : ProviderChange(u)
    \/ \E h \in Handlers, n \in AllNotifications : Deliver(h, n)
    \/ \E h \in Handlers : Step(h)

SpecConcurrent == Init /\ [][NextConcurrent]_vars

\* ------------------------------------------------------------ observations
Running(h) == pc[h] \in {"read", "insert", "guard", "scan"}
Over(h) == pc[h] \in {"returned", "raised", "crashed"}
HasRead(h) == pc[h] \notin {"idle", "read"}

\* The record update_last_history_id appends for the notification h handles.
RecordOf(h) == CursorRecord(DbUser, msg[h].historyId)

\* The store held the watch cursor before the first notification.
InitiallySynchronized ==
    cursors # <<>> /\ cursors[1].historyId = WatchHistoryId

Range(s) == {s[i] : i \in 1..Len(s)}

\* The messages the provider records as added after the watch cursor.
AddedMessages(u) ==
    UNION {Range(history[u][i].messagesAdded) : i \in 1..Len(history[u])}

\* Every published notification was handled to its acknowledgment and no
\* callback is running: the channel owes no further delivery.
Quiescent ==
    /\ \A h \in Handlers : pc[h] = "idle"
    /\ published # {}
    /\ acked = published

\* C1: across any sequence of deliveries for one user, redelivery and
\* late arrival of an older sequence number included, each added message id
\* is emitted (fetched) at most once.
C1_EmittedAtMostOnce ==
    \A u \in Mailboxes : \A m \in AddedMessages(u) : emitted[m] <= 1

\* C2: every message the provider records as added after the initially stored
\* cursor is emitted by the time every notification has been delivered,
\* handled and acknowledged (after which the channel redelivers nothing).
C2_NoneMissed ==
    (InitiallySynchronized /\ Quiescent)
        => \A u \in Mailboxes : \A m \in AddedMessages(u) : emitted[m] >= 1

\* C3: a notification whose sequence number is <= the cursor stored when it
\* arrives makes the callback issue no history-since call and no message
\* fetch; the callback acknowledges it and returns.
C3_DuplicateEmitsNothing ==
    \A h \in Handlers :
        (HasRead(h) /\ last[h] # None /\ last[h] >= msg[h].historyId)
            => /\ histCalls[h] = <<>>
               /\ fetched[h] = <<>>
               /\ pc[h] # "raised"
               /\ pc[h] = "returned" => acks[h] = 1

C3_Witness ==
    \E h \in Handlers :
        /\ pc[h] = "returned"
        /\ last[h] # None
        /\ last[h] >= msg[h].historyId
        /\ acks[h] = 1
        /\ emitted[FirstMsg(msg[h].historyId)] = 1

\* C4: for a notification whose sequence number is <= the cursor stored when
\* it arrives, the current stored cursor is the same after the callback has
\* handled it as before.
C4_DuplicateLeavesCursor ==
    \A h \in Handlers :
        (pc[h] = "returned" /\ last[h] # None /\ last[h] >= msg[h].historyId)
            => get_last_history_id(cursors, DbUser) = last[h]

\* C5: the cursor records of one user, in insertion order, are
\* non-decreasing in sequence number.
C5_CursorsNonDecreasing ==
    \A i, j \in 1..Len(cursors) :
        (i < j /\ cursors[i].userId = cursors[j].userId)
            => cursors[i].historyId <= cursors[j].historyId

\* C6: when two notifications of one user are handled concurrently, their
\* cursor read-then-append sequences do not interleave, no two of them
\* reconcile from the same stored cursor, and no message id is emitted by both.
C6_ReadAppendSerialized ==
    \A g, h \in Handlers :
        g # h =>
            /\ ~(pc[g] = "insert" /\ pc[h] = "insert")
            /\ ~(histCalls[g] # <<>> /\ histCalls[g] = histCalls[h])
            /\ Range(fetched[g]) \cap Range(fetched[h]) = {}

\* C7: a notification is acknowledged only after a cursor record at its
\* sequence number has been persisted: when the callback has acknowledged,
\* the newest record of the store is the one it appended.
C7_AckAfterCursorPersisted ==
    \A h \in Handlers :
        acks[h] > 0 => /\ cursors # <<>>
                       /\ cursors[Len(cursors)] = RecordOf(h)

C7_Witness ==
    \E h \in Handlers :
        /\ acks[h] = 1
        /\ fetched[h] # <<>>
        /\ cursors[Len(cursors)] = RecordOf(h)

\* C8: the callback acknowledges every delivered notification exactly once
\* on every path: duplicate, reconciliation with or without a matching entry,
\* missing stored cursor, and failure of the history or message fetch call.
C8_AckExactlyOnce ==
    \A h \in Handlers : pc[h] \in {"returned", "raised"} => acks[h] = 1

\* C9: with no cursor record for the user, handling a notification fails with
\* an error and leaves the store without any record for that user.
C9_UninitializedStaysEmpty ==
    \A h \in Handlers :
        (pc[h] \in {"returned", "raised"} /\ last[h] = None)
            => /\ pc[h] = "raised"
               /\ get_last_history_id(cursors, DbUser) = None

\* C10: with stored cursor C and a notification at S > C the callback calls
\* history-since with C; when the answer has a "messages added" entry with id
\* S it emits exactly the ids under that entry's messagesAdded and the stored
\* cursor afterwards is S; a repeated notification at S emits no id.
C10_ReconcileEmitsAdded ==
    \A h \in Handlers :
        /\ (pc[h] = "returned" /\ last[h] # None /\ last[h] < msg[h].historyId)
              => /\ histCalls[h] = <<last[h]>>
                 /\ get_last_history_id(cursors, DbUser) = msg[h].historyId
                 /\ \A i \in 1..Len(res[h]) :
                       (res[h][i].id = msg[h].historyId
                           /\ res[h][i].messagesAdded # <<>>)
                          => fetched[h] = res[h][i].messagesAdded
        /\ (pc[h] = "returned" /\ last[h] = msg[h].historyId)
              => fetched[h] = <<>>
\* ===================================================================
\* handlers/messages.py: MessageHandler, its builder and its stages
\* ===================================================================
LabelIds == {"L1", "L2"}
Formats == {"full", "minimal"}
BatchIds(n) == [i \in 1..n |-> i]

\* The provider's view of a message: odd ids carry label L1 from the start.
InitialLabels(m) == IF m % 2 = 1 THEN {"L1"} ELSE {}

\* The payload the provider returns in format "full": "parts" with an
\* attachment part and an inline part, no "parts" key, or only an inline part.
AttachmentPart(m) == [attachmentId |-> m, filename |-> "invoice.pdf"]
InlinePart == [attachmentId |-> 0, filename |-> ""]
RemoteHasParts(m) == m % 3 # 2
RemoteParts(m) ==
    IF m % 3 = 1 THEN <<AttachmentPart(m), InlinePart>>
    ELSE IF m % 3 = 0 THEN <<InlinePart>>
    ELSE <<>>

\* GmailMessage(id): every other attribute is None.
NewMessage(m) == [id |-> m, labelsLoaded |-> FALSE, labelIds |-> {},
                  payload |-> "None"]

\* GmailMessage.update(**res): the attributes of the response overwrite those
\* of the record; "minimal" carries labelIds and no payload, "full" both.
update(message, format) ==
    [message EXCEPT
        !.labelsLoaded = TRUE,
        !.labelIds = remoteLabels[message.id],
        !.payload = IF format = "full"
                    THEN (IF RemoteHasParts(message.id) THEN "Parts" ELSE "NoParts")
                    ELSE @]

\* A message as GmailMessage(id).reload_message leaves it (gmail.py:58-83).
LoadedMessage(m) == update(NewMessage(m), "full")

Ids(messages) == [i \in 1..Len(messages) |-> messages[i].id]

\* ---- the builder: each method appends its stage(s) and returns self
GetContentStage(format) == [kind |-> "get_content", format |-> format,
                            add |-> {}, remove |-> {}]
DownloadStage == [kind |-> "download_attachments", format |-> "",
                  add |-> {}, remove |-> {}]
LabelsStage(add, remove) == [kind |-> "manage_labels", format |-> "",
                             add |-> add, remove |-> remove]
RefreshStage == [kind |-> "refresh", format |-> "minimal",
                 add |-> {}, remove |-> {}]
TrashStage == [kind |-> "to_trash", format |-> "", add |-> {}, remove |-> {}]
UntrashStage == [kind |-> "untrash", format |-> "", add |-> {}, remove |-> {}]

\* manage_labels that forgets to append the refresh.
manage_labels_NoRefresh(p, add, remove) == Append(p, LabelsStage(add, remove))

\* manage_labels: _add_to_execution_plan(handler);
\*                _add_to_execution_plan(self._refresh_messages)
manage_labels(p, add, remove) ==
    Append(Append(p, LabelsStage(add, remove)), RefreshStage)

RECURSIVE BuilderCalls(_)
BuilderCalls(p) ==
    IF p = <<>> THEN 0
    ELSE (IF p[1].kind = "refresh" THEN 0 ELSE 1) + BuilderCalls(Tail(p))

pipelineRun == <<ip, batch, remoteLabels, trashed, calls, error, snaps>>

CanBuild == phase = "build" /\ BuilderCalls(plan) < MaxBuilderCalls

AddGetContent ==
    /\ CanBuild
    /\ \E f \in Formats : plan' = Append(plan, GetContentStage(f))
    /\ UNCHANGED <<phase, existing, pipelineRun>>
    /\ UNCHANGED notPipeline

AddDownloadAttachments ==
    /\ CanBuild
    /\ plan' = Append(plan, DownloadStage)
    /\ UNCHANGED <<phase, existing, pipelineRun>>
    /\ UNCHANGED notPipeline

AddManageLabels ==
    /\ CanBuild
    /\ \E add \in SUBSET LabelIds, remove \in SUBSET LabelIds :
          plan' = manage_labels(plan, add, remove)
    /\ UNCHANGED <<phase, existing, pipelineRun>>
    /\ UNCHANGED notPipeline

AddToTrash ==
    /\ CanBuild
    /\ plan' = Append(plan, TrashStage)
    /\ UNCHANGED <<phase, existing, pipelineRun>>
    /\ UNCHANGED notPipeline

AddUntrash ==
    /\ CanBuild
    /\ plan' = Append(plan, UntrashStage)
    /\ UNCHANGED <<phase, existing, pipelineRun>>
    /\ UNCHANGED notPipeline

\* ---- execute(messages): for action in self._execution_plan: action(...)
\* A loop that steps over the stage after the one that returned.
Advance_Skip ==
    /\ ip' = ip + 2
    /\ phase' = IF ip + 2 > Len(plan) THEN "done" ELSE "run"
    /\ error' = error

\* After a stage returned: the next stage, or the end of execute.
Advance ==
    /\ ip' = ip + 1
    /\ phase' = IF ip + 1 > Len(plan) THEN "done" ELSE "run"
    /\ error' = error

\* An execute that catches the exception of a stage and goes on.
Raise_Continue(e) ==
    /\ ip' = ip + 1
    /\ phase' = IF ip + 1 > Len(plan) THEN "done" ELSE "run"
    /\ error' = e

\* An exception leaves the stage and execute.
Raise(e) ==
    /\ ip' = ip
    /\ phase' = "failed"
    /\ error' = e

\* The caller hands over the matched messages: bare records built from the
\* search result, or records that were already loaded.
Execute ==
    /\ phase = "build"
    /\ \E n \in 0..MaxBatch, loaded \in SUBSET (1..MaxBatch) :
          /\ loaded \subseteq 1..n
          /\ batch' = [i \in 1..n |-> IF i \in loaded THEN LoadedMessage(i)
                                      ELSE NewMessage(i)]
    /\ ip' = 1
    /\ phase' = IF plan = <<>> THEN "done" ELSE "run"
    /\ UNCHANGED <<plan, existing, remoteLabels, trashed, calls, error, snaps>>
    /\ UNCHANGED notPipeline

AtStage(kind) == phase = "run" /\ plan[ip].kind = kind

\* The records after a batch of messages.get whose callbacks ran for the
\* first `answered` responses.
BatchUpdated(messages, format, answered) ==
    [i \in 1..Len(messages) |->
        IF i <= answered THEN update(messages[i], format) ELSE messages[i]]

BatchGetCall(format, messages) ==
    [op |-> "batchGet", format |-> format, ids |-> Ids(messages),
     add |-> {}, remove |-> {}]

\* Callbacks that drop the exception of a response: the other messages are
\* updated and the stage returns.
BatchGet_IgnoreErrors(format, failing) ==
    IF batch = <<>>
    THEN /\ failing = 0
         /\ UNCHANGED <<batch, calls>>
         /\ Advance
    ELSE /\ calls' = Append(calls, BatchGetCall(format, batch))
         /\ batch' = [i \in 1..Len(batch) |->
                         IF i = failing THEN batch[i] ELSE update(batch[i], format)]
         /\ Advance

\* One batch of messages.get; the callbacks run in request order and the
\* first response that carries an exception raises it (failing = its
\* position, 0 when every response is good). An empty batch sends nothing.
BatchGet(format, failing) ==
    IF batch = <<>>
    THEN /\ failing = 0
         /\ UNCHANGED <<batch, calls>>
         /\ Advance
    ELSE /\ calls' = Append(calls, BatchGetCall(format, batch))
         /\ IF failing = 0
            THEN /\ batch' = BatchUpdated(batch, format, Len(batch))
                 /\ Advance
            ELSE /\ batch' = BatchUpdated(batch, format, failing - 1)
                 /\ Raise("HttpError")

\* get_content's handler
RunGetContent ==
    /\ AtStage("get_content")
    /\ \E failing \in 0..Len(batch) : BatchGet(plan[ip].format, failing)
    /\ UNCHANGED <<plan, existing, remoteLabels, trashed, snaps>>
    /\ UNCHANGED notPipeline

LabelSnapshot(messages) ==
    [remote |-> [i \in 1..Len(messages) |-> remoteLabels[messages[i].id]],
     memory |-> [i \in 1..Len(messages) |-> messages[i].labelIds]]

\* _refresh_messages
RunRefresh ==
    /\ AtStage("refresh")
    /\ \E failing \in 0..Len(batch) : BatchGet("minimal", failing)
    /\ snaps' = IF phase' = "failed" THEN snaps
                ELSE Append(snaps, LabelSnapshot(batch'))
    /\ UNCHANGED <<plan, existing, remoteLabels, trashed>>
    /\ UNCHANGED notPipeline
\* ---- manage_labels' handler
\* Validation that also looks up the labels to remove.
MissingLabels_RemoveToo(add, remove, known) == (add \cup remove) \ known

\* for l in add_labels or []: if l not in labels_ids: raise ValueError
MissingLabels(add, remove, known) == add \ known

\* A provider call that flips the labels instead of setting them.
BatchModify_Toggle(labels, add, remove) ==
    ((labels \ add) \cup (add \ labels)) \ remove

\* users.messages.batchModify on one message: addLabelIds, removeLabelIds.
BatchModify(labels, add, remove) == (labels \cup add) \ remove

\* One batchModify per message of the batch instead of one for the batch.
ModifyCalls_PerMessage(add, remove, messages) ==
    [i \in 1..Len(messages) |->
        [op |-> "batchModify", format |-> "", ids |-> <<messages[i].id>>,
         add |-> add, remove |-> remove]]

\* The batchModify requests the handler sends: one, 'ids' being every
\* message of the batch.
ModifyCalls(add, remove, messages) ==
    <<[op |-> "batchModify", format |-> "", ids |-> Ids(messages),
       add |-> add, remove |-> remove]>>

LabelsListCall == [op |-> "labelsList", format |-> "", ids |-> <<>>,
                   add |-> {}, remove |-> {}]

RunManageLabels ==
    /\ AtStage("manage_labels")
    /\ LET add == plan[ip].add
           remove == plan[ip].remove
       IN IF batch = <<>>
          THEN \* if not messages: return
               /\ UNCHANGED <<calls, remoteLabels>>
               /\ Advance
          ELSE \E outcome \in {"ok", "listFails", "modifyFails"} :
               IF outcome = "listFails"
               THEN /\ calls' = Append(calls, LabelsListCall)
                    /\ UNCHANGED remoteLabels
                    /\ Raise("HttpError")
               ELSE IF MissingLabels(add, remove, existing) # {}
               THEN /\ outcome = "ok"
                    /\ calls' = Append(calls, LabelsListCall)
                    /\ UNCHANGED remoteLabels
                    /\ Raise("ValueError")
               ELSE /\ calls' = Append(calls, LabelsListCall)
                                   \o ModifyCalls(add, remove, batch)
                    /\ IF outcome = "ok"
                       THEN /\ remoteLabels' =
                                 [m \in DOMAIN remoteLabels |->
                                     IF m \in Range(Ids(batch))
                                     THEN BatchModify(remoteLabels[m], add, remove)
                                     ELSE remoteLabels[m]]
                            /\ Advance
                       ELSE /\ UNCHANGED remoteLabels
                            /\ Raise("HttpError")
    /\ UNCHANGED <<plan, batch, existing, trashed, snaps>>
    /\ UNCHANGED notPipeline

\* ---- download_attachments' handler
\* The attachments.get requests queued for one message: its parts that carry
\* an attachmentId (the default filter keeps every part).
RECURSIVE PartRequests(_)
PartRequests(parts) ==
    IF parts = <<>> THEN <<>>
    ELSE (IF Head(parts).attachmentId # 0 THEN <<Head(parts).attachmentId>>
          ELSE <<>>) \o PartRequests(Tail(parts))

\* message.payload is None or 'parts' not in message.payload
Unloaded(message) == message.payload # "Parts"

\* The requests added to batch_req by the first upto messages.
RECURSIVE Queued(_, _)
Queued(messages, upto) ==
    IF upto = 0 THEN <<>>
    ELSE Queued(messages, upto - 1) \o PartRequests(RemoteParts(messages[upto].id))

\* The first message of the batch that makes the handler raise, 0 if none.
RECURSIVE FirstUnloaded(_, _)
FirstUnloaded(messages, from) ==
    IF from > Len(messages) THEN 0
    ELSE IF Unloaded(messages[from]) THEN from
    ELSE FirstUnloaded(messages, from + 1)

\* A handler that executes every request as it is added.
SentBeforeRaise_Eager(queued) == queued

\* The requests that went out when the handler raises: batch_req.execute()
\* comes after the loop, so none of the queued ones.
SentBeforeRaise(queued) == <<>>

AttachmentsCall(requests) ==
    [op |-> "attachmentsGet", format |-> "", ids |-> requests,
     add |-> {}, remove |-> {}]

RunDownloadAttachments ==
    /\ AtStage("download_attachments")
    /\ LET k == FirstUnloaded(batch, 1)
       IN IF k # 0
          THEN LET sent == SentBeforeRaise(Queued(batch, k - 1))
               IN /\ calls' = IF sent = <<>> THEN calls
                              ELSE Append(calls, AttachmentsCall(sent))
                  /\ Raise("ValueError")
          ELSE LET requests == Queued(batch, Len(batch))
               IN IF requests = <<>>
                  THEN /\ UNCHANGED calls
                       /\ Advance
                  ELSE /\ calls' = Append(calls, AttachmentsCall(requests))
                       /\ \/ Advance
                          \/ Raise("TypeError")
    /\ UNCHANGED <<plan, batch, existing, remoteLabels, trashed, snaps>>
    /\ UNCHANGED notPipeline

\* ---- to_trash and untrash: one batch of messages.trash / messages.untrash
TrashCall(op, messages) ==
    [op |-> op, format |-> "", ids |-> Ids(messages), add |-> {}, remove |-> {}]

RunToTrash ==
    /\ AtStage("to_trash")
    /\ IF batch = <<>>
       THEN UNCHANGED <<calls, trashed>> /\ Advance
       ELSE /\ calls' = Append(calls, TrashCall("batchTrash", batch))
            /\ \/ trashed' = trashed \cup Range(Ids(batch)) /\ Advance
               \/ UNCHANGED trashed /\ Raise("HttpError")
    /\ UNCHANGED <<plan, batch, existing, remoteLabels, snaps>>
    /\ UNCHANGED notPipeline

RunUntrash ==
    /\ AtStage("untrash")
    /\ IF batch = <<>>
       THEN UNCHANGED <<calls, trashed>> /\ Advance
       ELSE /\ calls' = Append(calls, TrashCall("batchUntrash", batch))
            /\ \/ trashed' = trashed \ Range(Ids(batch)) /\ Advance
               \/ UNCHANGED trashed /\ Raise("HttpError")
    /\ UNCHANGED <<plan, batch, existing, remoteLabels, snaps>>
    /\ UNCHANGED notPipeline

InitPipeline ==
    /\ plan = <<>>
    /\ phase = "build"
    /\ ip = 0
    /\ batch = <<>>
    /\ existing \in {{"L1"}, LabelIds}
    /\ remoteLabels = [m \in 1..MaxBatch |-> InitialLabels(m)]
    /\ trashed = {}
    /\ calls = <<>>
    /\ error = "none"
    /\ snaps = <<>>
    /\ ConsumerUnused
    /\ ClassifyUnused
    /\ SchedulerUnused
    /\ SinkUnused
    /\ LabelsUnused
    /\ QueryUnused

NextPipeline ==
    \/ AddGetContent
    \/ AddDownloadAttachments
    \/ AddManageLabels
    \/ AddToTrash
    \/ AddUntrash
    \/ Execute
    \/ RunGetContent
    \/ RunRefresh
    \/ RunManageLabels
    \/ RunDownloadAttachments
    \/ RunToTrash
    \/ RunUntrash

SpecPipeline == InitPipeline /\ [][NextPipeline]_vars
\* ------------------------------------------------- pipeline observations
CallsOf(op) == LET Is(c) == c.op = op IN SelectSeq(calls, Is)

\* The stages of kind `kind` that have returned.
Completed(kind) ==
    {k \in 1..Len(plan) : plan[k].kind = kind /\ (k < ip \/ phase = "done")}

Started == phase \in {"run", "done", "failed"}
FailedAt(kind) == phase = "failed" /\ plan[ip].kind = kind

\* The plan built by get_content('full').manage_labels([L1]).
IsContentThenLabelL1 ==
    /\ BuilderCalls(plan) = 2
    /\ plan[1] = GetContentStage("full")
    /\ plan[2] = LabelsStage({"L1"}, {})

\* C12: the pipeline [get_content('full'), manage_labels([L1])] on N >= 1
\* messages, L1 existing remotely, issues exactly one batch content-get for
\* the N ids and exactly one batchModify adding L1 to the same N ids, and
\* afterwards every in-memory record carries L1.
C12_ContentThenLabel ==
    (IsContentThenLabelL1 /\ phase = "done" /\ batch # <<>> /\ "L1" \in existing)
        => /\ LET gets == SelectSeq(CallsOf("batchGet"),
                                    LAMBDA c : c.format = "full")
              IN gets = <<BatchGetCall("full", batch)>>
           /\ LET mods == CallsOf("batchModify")
              IN /\ Len(mods) = 1
                 /\ mods[1].ids = Ids(batch)
                 /\ mods[1].add = {"L1"}
           /\ \A i \in 1..Len(batch) :
                 batch[i].labelsLoaded /\ "L1" \in batch[i].labelIds

C12_Witness ==
    /\ IsContentThenLabelL1
    /\ phase = "done"
    /\ Len(batch) = MaxBatch
    /\ "L1" \notin InitialLabels(batch[2].id)
    /\ "L1" \in batch[2].labelIds
    /\ batch[1].payload = "Parts"

\* The plan built by one manage_labels call.
IsSingleLabelStage ==
    BuilderCalls(plan) = 1 /\ plan[1].kind = "manage_labels"

\* C13: a single label-management stage on a batch of N >= 1 messages makes
\* exactly one batchModify call, whose id list is all N ids, never one call
\* per message: no run holds more than one such call, and a run whose stage
\* returned holds exactly one.
C13_OneBatchModify ==
    (IsSingleLabelStage /\ Started /\ batch # <<>>)
        => LET mods == CallsOf("batchModify")
           IN /\ Len(mods) <= 1
              /\ \A i \in 1..Len(mods) : mods[i].ids = Ids(batch)
              /\ Completed("manage_labels") # {} => Len(mods) = 1

C13_Witness ==
    /\ IsSingleLabelStage
    /\ phase = "done"
    /\ Len(batch) = MaxBatch
    /\ Len(CallsOf("batchModify")) = 1

\* C14: the attachment-download stage on a batch in which some message has
\* no fetched content raises the precondition error, and no get-attachment
\* call is issued for any message of the batch, those before the unfetched
\* one included.
C14_NoAttachmentCallBeforeContent ==
    (Started /\ \E i \in 1..Len(batch) : batch[i].payload = "None")
        => /\ CallsOf("attachmentsGet") = <<>>
           /\ Completed("download_attachments") = {}
           /\ FailedAt("download_attachments") => error = "ValueError"

C14_Witness ==
    /\ FailedAt("download_attachments")
    /\ error = "ValueError"
    /\ Len(batch) >= 2
    /\ batch[1].payload = "Parts"
    /\ PartRequests(RemoteParts(batch[1].id)) # <<>>
    /\ batch[2].payload = "None"
    /\ CallsOf("attachmentsGet") = <<>>

\* C15: the label-management stage on a non-empty batch raises the named
\* error without issuing batchModify whenever a label id to add does not
\* exist remotely, and a label id to remove that does not exist never makes
\* it fail: the named error is raised for a missing label to add only.
C15_AddValidatedRemoveNot ==
    /\ \A k \in Completed("manage_labels") :
          batch # <<>> => plan[k].add \subseteq existing
    /\ (FailedAt("manage_labels") /\ ~(plan[ip].add \subseteq existing))
          => /\ error \in {"ValueError", "HttpError"}
             /\ Len(CallsOf("batchModify"))
                   = Cardinality(Completed("manage_labels"))
    /\ (FailedAt("manage_labels") /\ error = "ValueError")
          => ~(plan[ip].add \subseteq existing)

C15_Witness ==
    /\ FailedAt("manage_labels")
    /\ error = "ValueError"
    /\ batch # <<>>
    /\ ~(plan[ip].add \subseteq existing)
    /\ Len(CallsOf("batchModify")) = 1
    /\ \E k \in Completed("manage_labels") : ~(plan[k].remove \subseteq existing)

\* The plan built by two manage_labels calls with the same arguments.
IsSameLabelStageTwice ==
    /\ Len(plan) = 4
    /\ plan[1].kind = "manage_labels"
    /\ plan[3] = plan[1]

MaxPages == 2          \* pages the provider splits one result into
MaxPageSize == 2       \* message-id records on one page

NoRequest == 0         \* list_next's None: there is no further page
Searchers == {"gmail.GmailClassifier", "main.GmailClassifier",
              "search_for_new_emails"}
Classifiers == {"gmail.GmailClassifier", "main.GmailClassifier"}

\* The ids on page k of a result whose pages have the given sizes: the
\* provider lists every matching message once.
RECURSIVE Before(_, _)
Before(sizes, k) == IF k = 1 THEN 0 ELSE Before(sizes, k - 1) + sizes[k - 1]

PageOf(sizes, k) == [i \in 1..sizes[k] |-> Before(sizes, k) + i]

\* The response of the list request for page k. The provider leaves the
\* "messages" key out of a page without results and puts nextPageToken on
\* every page but the last.
Response(k) ==
    [hasMessages |-> pages[k] # <<>>,
     messages |-> pages[k],
     nextPageToken |-> k < Len(pages)]

\* res.get("messages", []), and `if 'messages' in res: ... res['messages']`.
get_messages(response) ==
    IF response.hasMessages THEN response.messages ELSE <<>>

extend_Overwrite(list, items) == items
\* list.extend(items)
extend(list, items) == list \o items

\* service.users().messages().list_next(req, res)
list_next(request, response) ==
    IF response.nextPageToken THEN request + 1 ELSE NoRequest

\* One turn of the `while req is not None` loop: execute the request,
\* accumulate its records, ask for the next request.
ListPage ==
    /\ cpc = "search"
    /\ req # NoRequest
    /\ LET response == Response(req)
           next == list_next(req, response)
       IN /\ listCalls' = Append(listCalls, req)
          /\ raw_messages' = extend(raw_messages, get_messages(response))
          /\ req' = next
          /\ cpc' = IF next # NoRequest THEN "search"
                    ELSE IF searcher \in Classifiers THEN "handle"
                    ELSE "done"
    /\ UNCHANGED <<pages, searcher, built, handled>>
    /\ UNCHANGED notClassify

\* req.execute() raises: the search propagates the error.
ListFails ==
    /\ cpc = "search"
    /\ req # NoRequest
    /\ listCalls' = Append(listCalls, req)
    /\ cpc' = "failed"
    /\ UNCHANGED <<pages, searcher, req, raw_messages, built, handled>>
    /\ UNCHANGED notClassify

\* gmail.py classify: one task per raw message that builds the record and
\* reloads it; self.handler is not called.
ReloadMessage ==
    /\ cpc = "handle"
    /\ searcher = "gmail.GmailClassifier"
    /\ Len(built) < Len(raw_messages)
    /\ built' = Append(built, raw_messages[Len(built) + 1])
    /\ UNCHANGED <<pages, searcher, req, listCalls, raw_messages, handled, cpc>>
    /\ UNCHANGED notClassify

\* main.py classify: for each raw message, get it in full, build the record
\* and call self.handler with that one record.
HandleMessage ==
    /\ cpc = "handle"
    /\ searcher = "main.GmailClassifier"
    /\ Len(built) < Len(raw_messages)
    /\ LET id == raw_messages[Len(built) + 1]
       IN /\ handled' = Append(handled, <<id>>)
          /\ built' = Append(built, id)
    /\ UNCHANGED <<pages, searcher, req, listCalls, raw_messages, cpc>>
    /\ UNCHANGED notClassify

\* classify returns its messages list.
ClassifyReturns ==
    /\ cpc = "handle"
    /\ Len(built) = Len(raw_messages)
    /\ cpc' = "done"
    /\ UNCHANGED <<pages, searcher, req, listCalls, raw_messages, built, handled>>
    /\ UNCHANGED notClassify

InitClassify ==
    /\ \E k \in 1..MaxPages :
          \E sizes \in [1..k -> 0..MaxPageSize] :
             pages = [i \in 1..k |-> PageOf(sizes, i)]
    /\ searcher \in Searchers
    /\ req = 1
    /\ listCalls = <<>>
    /\ raw_messages = <<>>
    /\ built = <<>>
    /\ handled = <<>>
    /\ cpc = "search"
    /\ ConsumerUnused
    /\ PipelineUnused
    /\ SchedulerUnused
    /\ SinkUnused
    /\ LabelsUnused
    /\ QueryUnused

NextClassify ==
    \/ ListPage
    \/ ListFails
    \/ ReloadMessage
    \/ HandleMessage
    \/ ClassifyReturns

SpecClassify == InitClassify /\ [][NextClassify]_vars

\* The records of all pages, page after page.
RECURSIVE Concatenated(_)
Concatenated(ps) ==
    IF ps = <<>> THEN <<>> ELSE Head(ps) \o Concatenated(Tail(ps))

Searched == cpc \in {"handle", "done"}

\* C11: classify, after the paginated search, builds one message record per
\* matched id and invokes its handler exactly once with the whole batch of
\* matched messages, never zero times for a non-empty match nor once per
\* message.
C11_HandlerOnceWithBatch ==
    (searcher \in Classifiers /\ cpc = "done" /\ raw_messages # <<>>)
        => /\ built = raw_messages
           /\ handled = <<raw_messages>>

\* C17: the paginated search requests each page exactly once, in order, until
\* the provider signals no further page, and returns the concatenation of the
\* pages' records, none skipped and none duplicated; with zero matches it
\* returns an empty list and no error.
C17_PaginationComplete ==
    /\ \A i \in 1..Len(listCalls) : listCalls[i] = i
    /\ Len(listCalls) <= Len(pages)
    /\ Searched
          => /\ Len(listCalls) = Len(pages)
             /\ raw_messages = Concatenated(pages)
             /\ \A i, j \in 1..Len(raw_messages) :
                   raw_messages[i] = raw_messages[j] => i = j
    /\ (Concatenated(pages) = <<>> /\ Len(listCalls) = Len(pages)
          /\ cpc # "failed")
          => Searched /\ raw_messages = <<>>

C17_Witness ==
    /\ cpc = "done"
    /\ Len(pages) = MaxPages
    /\ \A k \in 1..Len(pages) : Len(pages[k]) = MaxPageSize
    /\ Len(raw_messages) = MaxPages * MaxPageSize
\* ========================================================= scheduler =====
\* run_classfiers of main.py: one pass over the list of classifiers against
\* the classfier collection. Each run of the program makes one pass.
MaxRules == 2          \* classifiers in the list handed to run_classfiers
MaxPasses == 2         \* passes (runs of the program)
MaxClock == 3          \* readings the clock can take

Rules == 1..MaxRules

\* A document of the classfier collection; lastExecution None before the
\* first run. A rule without a document has registered FALSE.
Registration(lastExecution, deprecated) ==
    [registered |-> TRUE, lastExecution |-> lastExecution,
     deprecated |-> deprecated]

Unregistered ==
    [registered |-> FALSE, lastExecution |-> None, deprecated |-> FALSE]

\* classfier_collection.find_one({"name": ...}), inserting the document of
\* a new classifier first.
find_or_insert(reg, r) ==
    IF reg[r].registered THEN reg ELSE [reg EXCEPT ![r] = Registration(None, FALSE)]

\* The `after` argument run_classfiers passes to classify.
AfterBound(document) == document.lastExecution

IsDeprecated_Ignored(document) == FALSE
\* if classfier_db["deprecated"]: continue
IsDeprecated(document) == document.deprecated

\* A scheduler that stamps the document as soon as classify is dispatched.
Dispatched_Stamped(reg, r) == [reg EXCEPT ![r].lastExecution = now]

\* The collection while classify runs: run_classfiers waits for the call and
\* writes nothing before it returns.
Dispatched(reg, r) == reg

ClassifyCall(r, after) ==
    [rule |-> r, after |-> after, at |-> now, pass |-> passes]

\* The clock moves on.
Tick ==
    /\ spc # "unused"
    /\ now < MaxClock
    /\ now' = now + 1
    /\ UNCHANGED <<registry, ri, spc, classified, passes>>
    /\ UNCHANGED notScheduler

\* The program is started: run_classfiers enters its loop.
StartPass ==
    /\ spc \in {"idle", "raised"}
    /\ passes < MaxPasses
    /\ passes' = passes + 1
    /\ ri' = 1
    /\ spc' = "loop"
    /\ UNCHANGED <<registry, now, classified>>
    /\ UNCHANGED notScheduler

AtRule == spc = "loop" /\ ri \in Rules

\* The loop reaches a classifier flagged deprecated: continue.
SkipDeprecated ==
    /\ AtRule
    /\ LET reg == find_or_insert(registry, ri)
       IN /\ IsDeprecated(reg[ri])
          /\ registry' = reg
    /\ ri' = ri + 1
    /\ UNCHANGED <<now, spc, classified, passes>>
    /\ UNCHANGED notScheduler

\* The loop reaches a classifier in use and calls classifier.classify.
CallClassify ==
    /\ AtRule
    /\ LET reg == find_or_insert(registry, ri)
       IN /\ ~IsDeprecated(reg[ri])
          /\ registry' = Dispatched(reg, ri)
          /\ classified' = Append(classified, ClassifyCall(ri, AfterBound(reg[ri])))
    /\ spc' = "classify"
    /\ UNCHANGED <<now, ri, passes>>
    /\ UNCHANGED notScheduler

\* classify raises: nothing in run_classfiers catches the exception.
Propagate == spc' = "raised" /\ ri' = ri

\* classify returns: the last execution is set to the present time.
ClassifyDone ==
    /\ spc = "classify"
    /\ registry' = [registry EXCEPT ![ri].lastExecution = now]
    /\ ri' = ri + 1
    /\ spc' = "loop"
    /\ UNCHANGED <<now, classified, passes>>
    /\ UNCHANGED notScheduler

\* classify raises, in its search or in its handler.
ClassifyRaises ==
    /\ spc = "classify"
    /\ Propagate
    /\ UNCHANGED <<registry, now, classified, passes>>
    /\ UNCHANGED notScheduler

\* The for loop is over: run_classfiers returns.
EndPass ==
    /\ spc = "loop"
    /\ ri \notin Rules
    /\ spc' = "idle"
    /\ UNCHANGED <<registry, now, ri, classified, passes>>
    /\ UNCHANGED notScheduler

\* Between two runs of the program, a registered rule is flagged deprecated
\* in the collection.
Deprecate ==
    /\ spc \in {"idle", "raised"}
    /\ \E r \in Rules :
          /\ registry[r].registered
          /\ ~registry[r].deprecated
          /\ registry' = [registry EXCEPT ![r].deprecated = TRUE]
    /\ UNCHANGED <<now, ri, spc, classified, passes>>
    /\ UNCHANGED notScheduler

InitScheduler ==
    /\ registry \in [Rules -> {Unregistered, Registration(None, FALSE),
                               Registration(None, TRUE)}]
    /\ now = 1
    /\ ri = 0
    /\ spc = "idle"
    /\ classified = <<>>
    /\ passes = 0
    /\ ConsumerUnused
    /\ PipelineUnused
    /\ ClassifyUnused
    /\ SinkUnused
    /\ LabelsUnused
    /\ QueryUnused

NextScheduler ==
    \/ Tick
    \/ StartPass
    \/ SkipDeprecated
    \/ CallClassify
    \/ ClassifyDone
    \/ ClassifyRaises
    \/ EndPass
    \/ Deprecate

SpecScheduler == InitScheduler /\ [][NextScheduler]_vars

\* The pass that was started last is over.
PassOver == passes >= 1 /\ spc \in {"idle", "raised"}

ClassifiedInPass(r) ==
    \E i \in 1..Len(classified) :
        classified[i].rule = r /\ classified[i].pass = passes

\* C18: in one scheduler pass, when the classification of one rule fails with
\* an exception, every other non-deprecated rule of the pass is still
\* classified and the pass does not terminate with that exception.
C18_FailureIsolated ==
    PassOver
        => /\ spc # "raised"
           /\ \A r \in Rules : ~registry[r].deprecated => ClassifiedInPass(r)
\* ============================================================= sinks =====
\* save_attachment_locally and write_attachment_on_cloud_storage of
\* handlers/attachments.py, each called with one attachment dict.
MaxWrites == 2         \* sink calls
MaxData == 2           \* distinct attachment contents

Absent == 0            \* no file, or no blob, at the path
Contents == 1..MaxData

\* attachment['filename'].split('.'): the parts of the three shapes of name.
Filenames == {<<"invoice">>, <<"invoice", "pdf">>, <<"invoice", "v2", "pdf">>}
Dates == {"2024-01-01", "2024-01-02"}
Attachments == [filename : Filenames, date : Dates, data : Contents]

DownloadDirs == {"attachments/Claro"}
BucketPaths == {"", "Faturas/Inter", "Faturas/Inter/"}

\* `filename, extension = attachment['filename'].split('.')` needs exactly
\* two parts.
Unpacks(attachment) == Len(attachment.filename) = 2

\* f'{date}-{filename}.{extension}', as its pieces.
complete_filename(attachment) ==
    <<attachment.date, "-", attachment.filename[1], ".", attachment.filename[2]>>

\* downloads_dir/complete_filename
file_path(dir, attachment) == <<dir, "/">> \o complete_filename(attachment)

\* path + '/' + complete_filename
blob_name(path, attachment) == <<path, "/">> \o complete_filename(attachment)

Proper == {a \in Attachments : Unpacks(a)}
FilePaths == {file_path(d, a) : d \in DownloadDirs, a \in Proper}
BlobNames == {blob_name(q, a) : q \in BucketPaths, a \in Proper}

EndsWithSlash(path) == path = "Faturas/Inter/"

SinkCall(sink, path, before, attachment, wrote, e) ==
    [sink |-> sink, path |-> path, before |-> before,
     data |-> attachment.data, wrote |-> wrote, error |-> e]

NoPath == <<>>

\* save_attachment_locally(downloads_dir, attachment, fail_if_file_exists)
SaveLocally(dir, attachment, fail_if_file_exists) ==
    /\ Len(writes) < MaxWrites
    /\ IF ~Unpacks(attachment)
       THEN /\ sinkError' = "ValueError"
            /\ writes' = Append(writes, SinkCall("local", NoPath, Absent,
                                                 attachment, FALSE, "ValueError"))
            /\ UNCHANGED files
       ELSE LET path == file_path(dir, attachment)
            IN IF files[path] # Absent /\ fail_if_file_exists
               THEN /\ sinkError' = "FileExistsError"
                    /\ writes' = Append(writes,
                          SinkCall("local", path, files[path], attachment,
                                   FALSE, "FileExistsError"))
                    /\ UNCHANGED files
               ELSE /\ files' = [files EXCEPT ![path] = attachment.data]
                    /\ sinkError' = "none"
                    /\ writes' = Append(writes,
                          SinkCall("local", path, files[path], attachment,
                                   TRUE, "none"))
    /\ UNCHANGED <<blobs, bucketExists>>
    /\ UNCHANGED notSink

\* write_attachment_on_cloud_storage(bucket, attachment, path)
WriteOnCloud(path, attachment) ==
    /\ Len(writes) < MaxWrites
    /\ IF ~bucketExists \/ EndsWithSlash(path) \/ ~Unpacks(attachment)
       THEN /\ sinkError' = "ValueError"
            /\ writes' = Append(writes, SinkCall("cloud", NoPath, Absent,
                                                 attachment, FALSE, "ValueError"))
            /\ UNCHANGED blobs
       ELSE LET name == blob_name(path, attachment)
            IN /\ blobs' = [blobs EXCEPT ![name] = attachment.data]
               /\ sinkError' = "none"
               /\ writes' = Append(writes,
                     SinkCall("cloud", name, blobs[name], attachment,
                              TRUE, "none"))
    /\ UNCHANGED <<files, bucketExists>>
    /\ UNCHANGED notSink

InitSink ==
    /\ files = [f \in FilePaths |-> Absent]
    /\ blobs = [b \in BlobNames |-> Absent]
    /\ bucketExists \in BOOLEAN
    /\ sinkError = "none"
    /\ writes = <<>>
    /\ ConsumerUnused
    /\ PipelineUnused
    /\ ClassifyUnused
    /\ SchedulerUnused
    /\ LabelsUnused
    /\ QueryUnused

NextSink ==
    \/ \E d \in DownloadDirs, a \in Attachments, f \in BOOLEAN :
          SaveLocally(d, a, f)
    \/ \E q \in BucketPaths, a \in Attachments : WriteOnCloud(q, a)

SpecSink == InitSink /\ [][NextSink]_vars

\* C19: the attachment sinks check for existence of the target object before
\* writing and never overwrite it: when an object already exists at the path
\* an attachment would be written to, the existing content is left unchanged.
C19_NeverOverwrites ==
    \A i \in 1..Len(writes) :
        (writes[i].path # NoPath /\ writes[i].before # Absent)
            => ~writes[i].wrote
\* ====================================================== cursor store =====
IsPrefix(s, t) ==
    Len(s) <= Len(t) /\ \A i \in 1..Len(s) : s[i] = t[i]

\* The history id of the most recent record of the user, None without one.
Newest(coll, userId) ==
    IF \E i \in 1..Len(coll) : coll[i].userId = userId
    THEN coll[CHOOSE i \in 1..Len(coll) :
                 /\ coll[i].userId = userId
                 /\ \A j \in (i + 1)..Len(coll) : coll[j].userId # userId].historyId
    ELSE None

\* C20: the cursor store is append-only: no step modifies or deletes an
\* existing cursor record, and when update_last_history_id(user, h) returns,
\* the current cursor of that user (its most recent record) is h and the
\* call returns the value that was current before it.
C20_AppendOnlyStore ==
    [][/\ IsPrefix(cursors, cursors')
       /\ \A h \in Handlers :
             (pc[h] = "insert" /\ pc'[h] = "guard")
                => /\ Len(cursors') = Len(cursors) + 1
                   /\ Newest(cursors', DbUser) = msg[h].historyId
                   /\ last'[h] = Newest(cursors, DbUser)]_vars

C20_Witness ==
    \E h \in Handlers :
        /\ pc[h] = "guard"
        /\ Len(cursors) >= 3
        /\ cursors[Len(cursors)] = RecordOf(h)
        /\ last[h] = cursors[Len(cursors) - 1].historyId
        /\ last[h] # cursors[1].historyId
        /\ last[h] # msg[h].historyId
\* ====================================================== label set-up =====
\* setup_labels of classfiers.py: the documents of the labels collection are
\* created on the provider when their name is not among the listed labels.
MaxLocalLabels == 2    \* documents of the labels collection

LabelNames == {"Nubank", "Clickbus"}

\* user_labels_collection.find(): nothing keeps the names distinct.
LocalLists ==
    UNION {[1..n -> LabelNames] : n \in 0..MaxLocalLabels}

ShouldCreate_Always(name, names) == TRUE
\* `if user_label['name'] in gmail_labels_names: continue`
ShouldCreate(name, names) == name \notin names

\* A labels.create call and whether a label of that name existed then.
CreateCall(name) == [name |-> name, present |-> name \in gmailLabels]

\* gmail_labels = labels().list(); gmail_labels_names = [...]
ListLabels ==
    /\ lpc = "list"
    /\ listedNames' = gmailLabels
    /\ li' = 1
    /\ lpc' = "loop"
    /\ UNCHANGED <<localLabels, gmailLabels, gmailAtStart, creates, returned>>
    /\ UNCHANGED notLabels

\* A labels().list() call raises.
ListLabelsFails ==
    /\ lpc \in {"list", "relist"}
    /\ lpc' = "raised"
    /\ UNCHANGED <<localLabels, gmailLabels, gmailAtStart, listedNames, li,
                   creates, returned>>
    /\ UNCHANGED notLabels

AtDocument == lpc = "loop" /\ li \in 1..Len(localLabels)

\* The document's name is among the listed names: continue.
SkipListed ==
    /\ AtDocument
    /\ ~ShouldCreate(localLabels[li], listedNames)
    /\ li' = li + 1
    /\ UNCHANGED <<localLabels, gmailLabels, gmailAtStart, listedNames, lpc,
                   creates, returned>>
    /\ UNCHANGED notLabels

\* labels().create(body=user_label): the provider creates the label, or
\* answers with a conflict when a label of that name exists.
CreateLabel ==
    /\ AtDocument
    /\ ShouldCreate(localLabels[li], listedNames)
    /\ creates' = Append(creates, CreateCall(localLabels[li]))
    /\ IF localLabels[li] \in gmailLabels
       THEN lpc' = "raised" /\ UNCHANGED <<gmailLabels, li>>
       ELSE /\ gmailLabels' = gmailLabels \cup {localLabels[li]}
            /\ li' = li + 1
            /\ UNCHANGED lpc
    /\ UNCHANGED <<localLabels, gmailAtStart, listedNames, returned>>
    /\ UNCHANGED notLabels

\* labels().create raises for another reason: nothing is created.
CreateLabelFails ==
    /\ AtDocument
    /\ ShouldCreate(localLabels[li], listedNames)
    /\ creates' = Append(creates, CreateCall(localLabels[li]))
    /\ lpc' = "raised"
    /\ UNCHANGED <<localLabels, gmailLabels, gmailAtStart, listedNames, li,
                   returned>>
    /\ UNCHANGED notLabels

\* The loop is over.
EndLabelLoop ==
    /\ lpc = "loop"
    /\ li > Len(localLabels)
    /\ lpc' = "relist"
    /\ UNCHANGED <<localLabels, gmailLabels, gmailAtStart, listedNames, li,
                   creates, returned>>
    /\ UNCHANGED notLabels

\* updated_gmail_labels = labels().list(); return {name: id}
ReturnLabels ==
    /\ lpc = "relist"
    /\ returned' = gmailLabels
    /\ lpc' = "returned"
    /\ UNCHANGED <<localLabels, gmailLabels, gmailAtStart, listedNames, li,
                   creates>>
    /\ UNCHANGED notLabels

InitLabels ==
    /\ localLabels \in LocalLists
    /\ gmailLabels \in SUBSET LabelNames
    /\ gmailAtStart = gmailLabels
    /\ listedNames = {}
    /\ li = 0
    /\ lpc = "list"
    /\ creates = <<>>
    /\ returned = {}
    /\ ConsumerUnused
    /\ PipelineUnused
    /\ ClassifyUnused
    /\ SchedulerUnused
    /\ SinkUnused
    /\ QueryUnused

NextLabels ==
    \/ ListLabels
    \/ ListLabelsFails
    \/ SkipListed
    \/ CreateLabel
    \/ CreateLabelFails
    \/ EndLabelLoop
    \/ ReturnLabels

SpecLabels == InitLabels /\ [][NextLabels]_vars

LocalNames == {localLabels[i] : i \in 1..Len(localLabels)}
DistinctLocalNames == Cardinality(LocalNames) = Len(localLabels)

\* C21: after setup_labels, every label name of the local list exists
\* remotely; a create call is issued only for names that were absent remotely
\* before the call, never for a name already present; no remote label is
\* deleted.
C21_LabelsReconciled ==
    /\ lpc = "returned"
          => LocalNames \subseteq gmailLabels /\ LocalNames \subseteq returned
    /\ \A i \in 1..Len(creates) :
          /\ creates[i].name \notin gmailAtStart
          /\ creates[i].name \in LocalNames
          /\ DistinctLocalNames => ~creates[i].present
    /\ gmailAtStart \subseteq gmailLabels

C21_Witness ==
    /\ lpc = "returned"
    /\ Len(localLabels) = MaxLocalLabels
    /\ DistinctLocalNames
    /\ gmailAtStart = {localLabels[1]}
    /\ Len(creates) = 1
    /\ creates[1].name = localLabels[2]
    /\ returned = LocalNames
\* ===================================================== query builder =====
\* GmailQuery.to_gmail_string of gmail_query.py. A string is the sequence of
\* its characters; a keyword with its colon counts as one character.
MaxRun == 2            \* longest run of spaces inside a field value

Keywords == <<"from:", "to:", "subject:", "label:", "has:", "filename:">>
FieldIds == 1..Len(Keywords)

Whitespace == {" ", "\t"}
IsSpace(c) == c \in Whitespace

Spaces(n) == [i \in 1..n |-> " "]

\* The values a field is given: None, the empty string, a word, two words
\* with a run of spaces between them, a word with a trailing space, a tab.
NoValue == [given |-> FALSE, text |-> <<>>]
Text(t) == [given |-> TRUE, text |-> t]
FieldValues ==
    {NoValue, Text(<<>>), Text(<<"x">>), Text(<<"x", " ">>), Text(<<"\t">>)}
        \cup {Text(<<"x">> \o Spaces(n) \o <<"y">>) : n \in 1..MaxRun}

\* `if self.from_`: None and the empty string count as absent.
Truthy(value) == value.given /\ value.text # <<>>

\* f'from:{self.from_}' if self.from_ else ''
clause(i, value) ==
    IF Truthy(value) THEN <<Keywords[i]>> \o value.text ELSE <<>>

\* "{from_} {to} {subject} {label} {has} {filename}".format(...)
RECURSIVE format(_, _)
format(values, i) ==
    IF i = Len(Keywords)
    THEN clause(i, values[i])
    ELSE clause(i, values[i]) \o <<" ">> \o format(values, i + 1)

RECURSIVE lstrip(_)
lstrip(str) ==
    IF str # <<>> /\ IsSpace(Head(str)) THEN lstrip(Tail(str)) ELSE str

RECURSIVE rstrip(_)
rstrip(str) ==
    IF str # <<>> /\ IsSpace(str[Len(str)])
    THEN rstrip(SubSeq(str, 1, Len(str) - 1))
    ELSE str

\* re.sub(r'\s+', ' ', str)
RECURSIVE sub(_)
sub(str) ==
    IF str = <<>> THEN <<>>
    ELSE IF IsSpace(Head(str)) THEN <<" ">> \o sub(lstrip(str))
    ELSE <<Head(str)>> \o sub(Tail(str))

strip_Leading(str) == lstrip(str)
\* str.strip()
strip(str) == rstrip(lstrip(str))

to_gmail_string(values) == strip(sub(format(values, 1)))

ToGmailString ==
    /\ qpc = "built"
    /\ query' = to_gmail_string(fields)
    /\ qpc' = "converted"
    /\ UNCHANGED fields
    /\ UNCHANGED notQuery

InitQuery ==
    /\ fields \in [FieldIds -> FieldValues]
    /\ query = <<>>
    /\ qpc = "built"
    /\ ConsumerUnused
    /\ PipelineUnused
    /\ ClassifyUnused
    /\ SchedulerUnused
    /\ SinkUnused
    /\ LabelsUnused

NextQuery == ToGmailString

SpecQuery == InitQuery /\ [][NextQuery]_vars

\* The clauses of the present fields, in field order.
Present == {i \in FieldIds : Truthy(fields[i])}

RECURSIVE ClausesFrom(_)
ClausesFrom(i) ==
    IF i > Len(Keywords) THEN <<>>
    ELSE IF i \in Present
         THEN <<(<<Keywords[i]>> \o fields[i].text)>> \o ClausesFrom(i + 1)
         ELSE ClausesFrom(i + 1)

\* The words of a string: its maximal runs of characters that are no space.
RECURSIVE WordsOf(_, _, _)
WordsOf(str, word, found) ==
    LET closed == IF word = <<>> THEN found ELSE Append(found, word)
    IN IF str = <<>> THEN closed
       ELSE IF IsSpace(Head(str)) THEN WordsOf(Tail(str), <<>>, closed)
       ELSE WordsOf(Tail(str), Append(word, Head(str)), found)

RECURSIVE AllWords(_)
AllWords(strs) ==
    IF strs = <<>> THEN <<>>
    ELSE WordsOf(Head(strs), <<>>, <<>>) \o AllWords(Tail(strs))

RECURSIVE Joined(_)
Joined(strs) ==
    IF strs = <<>> THEN <<>>
    ELSE IF Len(strs) = 1 THEN strs[1]
    ELSE strs[1] \o <<" ">> \o Joined(Tail(strs))

\* A value that whitespace normalisation leaves as it is.
Normal(str) == Joined(WordsOf(str, <<>>, <<>>)) = str

\* C22: for every combination of present and absent fields, to_gmail_string
\* returns the clauses of exactly the present fields, each with its keyword,
\* in the order from, to, subject, label, has, filename, separated by single
\* spaces with no leading or trailing space, and the empty string when no
\* field is present. The clauses appear word for word; a clause whose value
\* is whitespace-normal appears as it is.
C22_QueryString ==
    qpc = "converted"
        => /\ query = Joined(AllWords(ClausesFrom(1)))
           /\ (\A i \in Present : Normal(fields[i].text))
                 => query = Joined(ClausesFrom(1))
           /\ Present = {} => query = <<>>
           /\ query # <<>> => ~IsSpace(query[1]) /\ ~IsSpace(query[Len(query)])
           /\ \A k \in 1..(Len(query) - 1) :
                 ~(IsSpace(query[k]) /\ IsSpace(query[k + 1]))
           /\ \A k \in 1..Len(query) : query[k] # "\t"

C22_Witness ==
    /\ qpc = "converted"
    /\ fields[1] = Text(<<"x">>)
    /\ fields[2] = NoValue
    /\ fields[3] = Text(<<"x", " ", "y">>)
    /\ fields[4] = Text(<<>>)
    /\ fields[5] = NoValue
    /\ fields[6] = Text(<<"x">>)
    /\ query = <<"from:", "x", " ", "subject:", "x", " ", "y", " ",
                 "filename:", "x">>
\* ------------------------------------------------ pipeline, order of run
\* The stages that have returned, counted from the head of the plan.
ReturnedStages == IF phase = "done" THEN Len(plan) ELSE ip - 1

\* The remote calls a stage of the given kind makes.
OpsOf(kind) ==
    CASE kind = "get_content" -> {"batchGet"}
      [] kind = "refresh" -> {"batchGet"}
      [] kind = "manage_labels" -> {"labelsList", "batchModify"}
      [] kind = "download_attachments" -> {"attachmentsGet"}
      [] kind = "to_trash" -> {"batchTrash"}
      [] kind = "untrash" -> {"batchUntrash"}

OnBatch(call) ==
    call.op \in {"labelsList", "attachmentsGet"} \/ call.ids = Ids(batch)

RECURSIVE TrashedAfter(_)
TrashedAfter(k) ==
    IF k = 0 THEN {}
    ELSE IF plan[k].kind = "to_trash"
         THEN TrashedAfter(k - 1) \cup Range(Ids(batch))
    ELSE IF plan[k].kind = "untrash"
         THEN TrashedAfter(k - 1) \ Range(Ids(batch))
    ELSE TrashedAfter(k - 1)

RECURSIVE LabelsAfter(_, _)
LabelsAfter(k, m) ==
    IF k = 0 THEN InitialLabels(m)
    ELSE IF plan[k].kind = "manage_labels" /\ m \in Range(Ids(batch))
         THEN (LabelsAfter(k - 1, m) \cup plan[k].add) \ plan[k].remove
    ELSE LabelsAfter(k - 1, m)

RemoteAsLeftBy(k) ==
    /\ trashed = TrashedAfter(k)
    /\ \A m \in DOMAIN remoteLabels : remoteLabels[m] = LabelsAfter(k, m)

\* C24: when stage k of a pipeline raises, no stage after k is started in
\* that run, the exception reaches the caller of execute, and the remote
\* mutations of the stages before k, labels and trash, remain applied:
\* nothing undoes them.
C24_RaiseAbortsWithoutRollback ==
    [][/\ error # "none" => phase = "failed"
       /\ (phase = "run" /\ error' # "none")
             => /\ phase' = "failed"
                /\ ip' = ip
                /\ remoteLabels' = remoteLabels
                /\ trashed' = trashed
       /\ phase = "failed"
             => /\ RemoteAsLeftBy(ip - 1)
                /\ Len(calls') = Len(calls)
                /\ UNCHANGED <<ip, phase, error, remoteLabels, trashed>>]_vars

C24_Witness ==
    /\ phase = "failed"
    /\ error = "HttpError"
    /\ ip = 2
    /\ Len(plan) = 3
    /\ plan[1].kind = "manage_labels"
    /\ plan[1].add = {"L1"}
    /\ plan[3].kind = "to_trash"
    /\ Len(batch) = MaxBatch
    /\ \A i \in 1..Len(batch) : "L1" \in remoteLabels[batch[i].id]
    /\ trashed = {}
    /\ CallsOf("batchTrash") = <<>>

\* C25: in the content-fetch stage, when the batched get fails for a single
\* message of the batch, the stage as a whole fails with that error; it never
\* returns with a message left without content, so no later stage runs on a
\* partially enriched batch.
C25_ContentFetchAllOrFail ==
    /\ \A k \in Completed("get_content") :
          \A i \in 1..Len(batch) :
             /\ batch[i].labelsLoaded
             /\ plan[k].format = "full" => batch[i].payload # "None"
    /\ FailedAt("get_content")
          => /\ error = "HttpError"
             /\ ReturnedStages = ip - 1
             /\ calls[Len(calls)] = BatchGetCall(plan[ip].format, batch)

C25_Witness ==
    /\ FailedAt("get_content")
    /\ ip = 1
    /\ Len(plan) >= 2
    /\ plan[1].format = "full"
    /\ Len(batch) = MaxBatch
    /\ batch[1].payload # "None"
    /\ batch[2].payload = "None"
    /\ Len(calls) = 1

\* C26: in every execution plan the builder can produce, each label-modify
\* stage is immediately followed by a minimal re-fetch stage, and after the
\* pair has run the in-memory label set of every message of the batch equals
\* its remote label set.
C26_LabelStageThenRefresh ==
    /\ \A k \in 1..Len(plan) :
          plan[k].kind = "manage_labels"
             => /\ k < Len(plan)
                /\ plan[k + 1].kind = "refresh"
                /\ plan[k + 1].format = "minimal"
    /\ Started => Len(snaps) = Cardinality(Completed("refresh"))
    /\ \A i \in 1..Len(snaps) : snaps[i].memory = snaps[i].remote
    /\ (Started /\ ReturnedStages >= 1 /\ plan[ReturnedStages].kind = "refresh")
          => \A i \in 1..Len(batch) :
                batch[i].labelIds = remoteLabels[batch[i].id]

C26_Witness ==
    /\ phase = "run"
    /\ ip = 3
    /\ plan[1].kind = "manage_labels"
    /\ plan[1].add = {"L2"}
    /\ plan[1].remove = {"L1"}
    /\ Len(batch) = MaxBatch
    /\ \A i \in 1..Len(batch) :
          batch[i].labelIds = {"L2"} /\ remoteLabels[batch[i].id] = {"L2"}
\* --------------------------------------------- scheduler, registrations
NewCalls == {i \in 1..Len(classified') : i > Len(classified)}

\* C27: for a rule whose persisted registration is flagged deprecated, a
\* scheduler pass issues no search and no handler call (no classify call) and
\* leaves its registration record, lastExecution included, unchanged.
C27_DeprecatedUntouched ==
    [][\A r \in Rules :
          (registry[r].registered /\ registry[r].deprecated)
             => /\ registry'[r] = registry[r]
                /\ \A i \in NewCalls : classified'[i].rule # r]_vars

C27_Witness ==
    /\ spc = "idle"
    /\ passes = 2
    /\ registry[1].deprecated
    /\ registry[1].lastExecution # None
    /\ \E i \in 1..Len(classified) :
          classified[i].rule = 2 /\ classified[i].pass = 2
    /\ \A i \in 1..Len(classified) :
          classified[i].rule = 1 => classified[i].pass = 1

LastCall == classified[Len(classified)]

after_query(after) == [bounded |-> after # None /\ after # 0, after |-> after]

\* C29: for a rule whose lastExecution is null the scheduler calls classify
\* with a finite lower time bound, that of a fixed default window; for a rule
\* with a lastExecution it calls classify with that timestamp as the bound.
C29_LowerBoundAlways ==
    [][\A i \in NewCalls :
          LET call == classified'[i]
              document == find_or_insert(registry, call.rule)
          IN /\ after_query(call.after).bounded
             /\ document.lastExecution # None
                   => after_query(call.after).after = document.lastExecution]_vars
\* ------------------------------------------- pubsub.py, records per entry
\* The entries of a history answer that carry "messagesAdded".
AddedEntries(items) ==
    LET Added(e) == e.messagesAdded # <<>>
    IN SelectSeq(items, Added)

\* C30: in one reconciliation, for every "messages added" entry of the
\* returned history a cursor record at that entry's sequence number is
\* appended, as many records as entries (they follow the record the cursor was
\* read from), and the ids of all those entries are returned.
C30_RecordPerEntry ==
    \A h \in Handlers :
        (pc[h] = "returned" /\ last[h] # None
            /\ ~IsDuplicate(last[h], msg[h].historyId))
           => LET entries == AddedEntries(res[h])
                  k == Len(entries)
                  n == Len(cursors)
              IN /\ n > k
                 /\ cursors[n - k] = CursorRecord(DbUser, last[h])
                 /\ \A j \in 1..k :
                       /\ cursors[n - k + j] = CursorRecord(DbUser, entries[j].id)
                       /\ Range(entries[j].messagesAdded) \subseteq Range(fetched[h])
\* ------------------------------------------ scheduler, consecutive passes
\* Call j is the next classify of the rule of call i.
NextCallOfRule(i, j) ==
    /\ i < j
    /\ classified[i].rule = classified[j].rule
    /\ \A k \in (i + 1)..(j - 1) : classified[k].rule # classified[i].rule

\* C31: across two consecutive passes over a non-deprecated rule, the lower
\* time bound of the second classify is no later than the moment the first
\* classify issued its search, so that a message arriving while the first
\* pass runs falls in the window of the second.
C31_WindowCoversRun ==
    \A i, j \in 1..Len(classified) :
        (NextCallOfRule(i, j) /\ classified[j].pass = classified[i].pass + 1)
            => \/ ~after_query(classified[j].after).bounded
               \/ classified[j].after <= classified[i].at
\* ------------------------------------------- pubsub.py, callbacks per user
\* The userId arguments callbacks are bound to: the authorized user and a
\* second mailbox user.
BoundUsers == {DbUser, "other"}

\* The watch cursor of every bound user, as stored before any notification.
WatchCursors == <<CursorRecord(DbUser, WatchHistoryId),
                  CursorRecord("other", WatchHistoryId)>>

InitUsers ==
    /\ history = [u \in BoundUsers |-> <<>>]
    /\ published = {}
    /\ deliveries = 0
    /\ acked = {}
    /\ cursors \in {<<>>, WatchCursors}
    /\ pc = [h \in Handlers |-> "idle"]
    /\ msg = [h \in Handlers |-> NoMessage]
    /\ last = [h \in Handlers |-> None]
    /\ res = [h \in Handlers |-> <<>>]
    /\ acks = [h \in Handlers |-> 0]
    /\ fetched = [h \in Handlers |-> <<>>]
    /\ histCalls = [h \in Handlers |-> <<>>]
    /\ pos = [h \in Handlers |-> 0]
    /\ emitted = [m \in MessageIds |-> 0]
    /\ PipelineUnused
    /\ ClassifyUnused
    /\ SchedulerUnused
    /\ SinkUnused
    /\ LabelsUnused
    /\ QueryUnused

\* One notification is handled at a time, by a callback bound to the user
\* of the notification.
NextUsers ==
    \/ \E u \in BoundUsers : ProviderChange(u)
    \/ \E h \in Handlers : \E n \in published : DeliverSerial(h, n)
    \/ \E h \in Handlers : Step(h)

SpecUsers == InitUsers /\ [][NextUsers]_vars

\* C32: new_message_callback reads and appends the cursor of the user it
\* calls history-since for (its userId argument), and handling a notification
\* for one user leaves the current cursor of every other user as it was.
C32_OwnCursorOnly ==
    [][\A h \in Handlers :
          /\ (pc[h] = "read" /\ pc'[h] = "insert")
                => last'[h] = Newest(cursors, msg[h].userId)
          /\ (pc[h] = "insert" /\ pc'[h] = "guard")
                => cursors' = Append(cursors,
                                     CursorRecord(msg[h].userId, msg[h].historyId))
          /\ pc[h] # "idle"
                => \A u \in BoundUsers \ {msg[h].userId} :
                      Newest(cursors', u) = Newest(cursors, u)]_vars
====
